---- MODULE Spec2Model ----
(***************************************************************************)
(* Model of the terminal half of AppComponent                              *)
(* (src/ai-terminal/src/app/app.component.ts): the command history, the   *)
(* input line, the sudo password prompt, autocomplete, and the             *)
(* asynchronous calls and events exchanged with the Tauri backend.         *)
(*                                                                         *)
(* Every history entry carries an `id` field that the program does not    *)
(* have: it stands for the identity of the JavaScript object, which the   *)
(* closures of executeCommand keep a reference to (commandEntry,          *)
(* sudoCommandEntry) even after the entry has left commandHistory.         *)
(* Optional boolean fields (isStreaming?, success?) take the values       *)
(* "undefined", "true" and "false".                                        *)
(***************************************************************************)
EXTENDS Integers, Sequences, FiniteSets, TLC

(***************************************************************************)
(* Bounds of the model.                                                    *)
(***************************************************************************)
\* history entries created in one behaviour
MaxCommands == 2
\* command_output / command_error events emitted by one execution
MaxLines == 1
\* characters typed into the password prompt
MaxPassword == 1
\* get_working_directory calls in flight
MaxDirRequests == 2
\* autocomplete calls in flight
MaxAutocomplete == 1
\* terminateCommand invocations in one behaviour
MaxTerminate == 2
\* execute_command / execute_sudo_command calls made in one behaviour
MaxExecs == 2
\* terminal tabs
MaxSessions == 3

(***************************************************************************)
(* Strings.                                                                *)
(***************************************************************************)
StartsWith(s, p) == Len(s) >= Len(p) /\ SubSeq(s, 1, Len(p)) = p

Includes(s, p) == \E i \in 1..(Len(s) - Len(p) + 1) : SubSeq(s, i, i + Len(p) - 1) = p

IsSpace(c) == c \in {" ", "\n", "\t"}

RECURSIVE TrimStart(_)
TrimStart(s) ==
    IF Len(s) > 0 /\ IsSpace(SubSeq(s, 1, 1)) THEN TrimStart(SubSeq(s, 2, Len(s))) ELSE s

RECURSIVE TrimEnd(_)
TrimEnd(s) ==
    IF Len(s) > 0 /\ IsSpace(SubSeq(s, Len(s), Len(s)))
    THEN TrimEnd(SubSeq(s, 1, Len(s) - 1)) ELSE s

Trim(s) == TrimEnd(TrimStart(s))

RECURSIVE Repeat(_, _)
Repeat(c, n) == IF n <= 0 THEN "" ELSE c \o Repeat(c, n - 1)

\* String.prototype.slice(0, -1)
DropLast(s) == IF Len(s) = 0 THEN "" ELSE SubSeq(s, 1, Len(s) - 1)

\* String.prototype.indexOf, 0-based, -1 when absent
IndexOf(s, p) ==
    IF Includes(s, p)
    THEN (CHOOSE i \in 1..(Len(s) - Len(p) + 1) :
            /\ SubSeq(s, i, i + Len(p) - 1) = p
            /\ \A j \in 1..(i - 1) : SubSeq(s, j, j + Len(p) - 1) # p) - 1
    ELSE -1

\* String.prototype.replace(/p/g, '')
RECURSIVE RemoveAll(_, _)
RemoveAll(s, p) ==
    IF IndexOf(s, p) = -1 THEN s
    ELSE SubSeq(s, 1, IndexOf(s, p)) \o RemoveAll(SubSeq(s, IndexOf(s, p) + Len(p) + 1, Len(s)), p)

\* the first word of s.split(' '), and whether the split has one part only
FirstPart(s) == IF IndexOf(s, " ") = -1 THEN s ELSE SubSeq(s, 1, IndexOf(s, " "))

IsCdCommand(text) == text = "cd" \/ StartsWith(text, "cd ")

\* the Markdown code fence (three backquotes), written with tildes because a
\* TLA+ string cannot hold a backquote
Fence == "~~~"

transformCodeForDisplay(code) ==
    IF code = "" THEN ""
    ELSE LET cleanCode == Trim(RemoveAll(code, Fence))
             colonIndex == IndexOf(cleanCode, ":")
         IN  IF colonIndex > -1 THEN Trim(SubSeq(cleanCode, 1, colonIndex)) ELSE cleanCode

(***************************************************************************)
(* The texts the user, the AI panel and the backend can produce.           *)
(***************************************************************************)
HomeDir == "/home/u"
TmpDir == "/tmp"
VarDir == "/var"
Dirs == {HomeDir, TmpDir, VarDir}

\* what the (input) event can leave in the textarea
InputTexts == {"ls", "cd /tmp", "sudo ls", "clear"}
\* code blocks of the AI panel
CodeTexts == {Fence \o "ls" \o Fence, "cd /tmp: go to tmp"}
\* keys typed into the password prompt
PasswordKeys == {"7", "9"}

SuccessMessage == "Command completed successfully."
EndMessages == {SuccessMessage, "Command failed."}
StartedMarker == "Command started. Output will stream in real-time."
SudoStartedMarker == "Sudo command started. Output will stream in real-time."
\* the backend's own echo of the sudo prompt
BackendSudoPrompt == "[sudo] password for u:"
\* lines the backend can deliver on any of its channels
MarkerLines == {StartedMarker, SudoStartedMarker, BackendSudoPrompt, "file.txt"}
OutputLines == {"file.txt"}
ErrorLines == {"not found"}
InvokeResults == {"ok"}
ErrorReasons == {"spawn failed"}
TerminatingLine == "\n^C - Terminating process..."
SudoPromptLine == "[sudo] password for user:"
SudoProcessingLine == "Processing sudo command..."

(***************************************************************************)
(* State.                                                                  *)
(***************************************************************************)
VARIABLES
    \* fields of AppComponent
    commandHistory, currentCommand, isProcessing, currentWorkingDirectory,
    commandHistoryIndex, autocompleteSuggestions, showSuggestions,
    selectedSuggestionIndex, homePath, isSudoPasswordPrompt,
    originalSudoCommand, passwordValue, displayValue,
    \* number of history entries created so far (the next entry's id is nextId + 1)
    nextId,
    \* execute_command / execute_sudo_command calls, in the order they were made:
    \* the entry the calling closure holds, the arguments, the state of the
    \* promise (call) and of the backend process (proc)
    execs,
    \* pending setTimeout(() => this.getCurrentDirectory(), 50) callbacks
    timers,
    \* getCurrentDirectory calls whose Promise.all has not settled
    dirRequests,
    \* autocomplete calls that have not settled
    autocompleteCalls,
    \* terminate_command calls that have not settled, how many were made, and
    \* the ids of the entries terminateCommand marked as cancelled
    terminateCalls, terminateCount, cancelled,
    \* the terminateCommand calls of the older variant that have not reported
    \* yet: the entry each one holds and how far it got
    terminations,
    \* how many of the three listeners ngOnInit has registered, in the order
    \* command_output, command_error, command_end
    listeners,
    \* the backend's working directory
    backendDirectory,
    \* the terminal tabs: for each session identifier, whether the tab is open
    \* and its working directory; and the tab shown
    sessions, activeSession,
    \* the submission made by the step just taken, if it was one: how the
    \* Enter key was handled ("line" or "password") and the command text it
    \* carried; "none" after every other step
    submitted

historyVars == <<commandHistory, isProcessing>>
inputVars == <<currentCommand, commandHistoryIndex>>
suggestVars == <<autocompleteSuggestions, showSuggestions, selectedSuggestionIndex>>
sudoVars == <<isSudoPasswordPrompt, originalSudoCommand, passwordValue, displayValue>>
dirVars == <<currentWorkingDirectory, homePath, dirRequests>>
execVars == <<nextId, execs, timers>>
terminateVars == <<terminateCalls, terminateCount, cancelled, terminations>>
sessionVars == <<sessions, activeSession>>

vars == <<commandHistory, currentCommand, isProcessing, currentWorkingDirectory,
          commandHistoryIndex, autocompleteSuggestions, showSuggestions,
          selectedSuggestionIndex, homePath, isSudoPasswordPrompt,
          originalSudoCommand, passwordValue, displayValue, nextId, execs,
          timers, dirRequests, autocompleteCalls, terminateCalls,
          terminateCount, cancelled, terminations, listeners, backendDirectory,
          sessions, activeSession, submitted>>

\* the step just taken submitted nothing
NoSubmit == [mode |-> "none", text |-> ""]

(***************************************************************************)
(* History entries.                                                        *)
(***************************************************************************)
NewEntry(id, command, output, isStreaming) ==
    [id |-> id, command |-> command, output |-> output, isComplete |-> FALSE,
     isStreaming |-> isStreaming, success |-> "undefined"]

HasEntry(h, id) == \E i \in 1..Len(h) : h[i].id = id

EntryOf(h, id) == h[CHOOSE i \in 1..Len(h) : h[i].id = id]

\* an assignment through a closure's reference to the entry object: visible in
\* commandHistory as long as the object is still an element of it
UpdateEntry(h, id, e) ==
    [i \in 1..Len(h) |-> IF h[i].id = id THEN e ELSE h[i]]

Last(h) == h[Len(h)]

\* an assignment to this.commandHistory[this.commandHistory.length - 1]
UpdateLast(h, e) ==
    [i \in 1..Len(h) |-> IF i = Len(h) THEN e ELSE h[i]]

(***************************************************************************)
(* Initial state: ngOnInit has run, the initial directory is shown and the *)
(* three listeners are registered.                                         *)
(***************************************************************************)
ToDisplay(result, home) ==
    IF StartsWith(result, home)
    THEN "~" \o SubSeq(result, Len(home) + 1, Len(result))
    ELSE Trim(result)

\* session identifiers, and the two shapes of a slot of the session table
SessionIds == 1..MaxSessions
ClosedSession == [open |-> FALSE, workingDirectory |-> ""]
OpenSession(dir) == [open |-> TRUE, workingDirectory |-> dir]

\* the fields as the constructor leaves them, with the initial directory shown
Constructed ==
    /\ commandHistory = <<>>
    /\ currentCommand = ""
    /\ isProcessing = FALSE
    /\ currentWorkingDirectory = ToDisplay(HomeDir, HomeDir)
    /\ commandHistoryIndex = -1
    /\ autocompleteSuggestions = <<>>
    /\ showSuggestions = FALSE
    /\ selectedSuggestionIndex = -1
    /\ homePath = HomeDir
    /\ isSudoPasswordPrompt = FALSE
    /\ originalSudoCommand = ""
    /\ passwordValue = ""
    /\ displayValue = ""
    /\ nextId = 0
    /\ execs = <<>>
    /\ timers = 0
    /\ dirRequests = <<>>
    /\ autocompleteCalls = <<>>
    /\ terminateCalls = 0
    /\ terminateCount = 0
    /\ cancelled = {}
    /\ terminations = <<>>
    /\ backendDirectory = HomeDir
    /\ sessions = [s \in SessionIds |-> IF s = 1 THEN OpenSession(HomeDir) ELSE ClosedSession]
    /\ activeSession = 1
    /\ submitted = NoSubmit

Init == Constructed /\ listeners = 3

\* the component while ngOnInit is still awaiting: the view already takes keys,
\* no listener is registered yet
InitStartup == Constructed /\ listeners = 0

(***************************************************************************)
(* executeCommand, key Enter (also reached through executeCodeDirectly).   *)
(***************************************************************************)
NewExec(entry, kind, args) ==
    [entry |-> entry, kind |-> kind, command |-> args.command,
     password |-> args.password, call |-> "pending", proc |-> "none", lines |-> 0,
     endMessage |-> ""]

\* the arguments of invoke("execute_command", ...)
ExecuteCommandArgs(commandToSend) == [command |-> commandToSend, password |-> ""]

\* a variant that splices the password into the command line
ExecuteSudoArgsInline(command, password) ==
    [command |-> command \o " " \o password, password |-> password]

\* a variant that sends the command without its keyword
ExecuteSudoArgsStripped(command, password) ==
    [command |-> SubSeq(command, 6, Len(command)), password |-> password]

\* the arguments of invoke("execute_sudo_command", ...)
ExecuteSudoArgs(command, password) == [command |-> command, password |-> password]

\* a variant that keeps the password after sending it
SubmitPasswordKeeping ==
    /\ passwordValue' = passwordValue
    /\ displayValue' = ""
    /\ currentCommand' = ""
    /\ isSudoPasswordPrompt' = FALSE
    /\ isProcessing' = TRUE
    /\ submitted' = [mode |-> "password", text |-> originalSudoCommand]
    /\ IF Len(commandHistory) = 0
       THEN \* sudoCommandEntry is undefined: the assignment in the try block and
            \* the one in the catch block both throw, nothing is dispatched
            UNCHANGED <<commandHistory, execs>>
       ELSE /\ Len(execs) < MaxExecs
            /\ commandHistory' = UpdateLast(commandHistory,
                   [Last(commandHistory) EXCEPT !.isStreaming = "true",
                                                !.output = <<SudoProcessingLine>>])
            /\ execs' = Append(execs, NewExec(Last(commandHistory).id, "sudo",
                                   ExecuteSudoArgs(originalSudoCommand, passwordValue)))
    /\ UNCHANGED <<originalSudoCommand, commandHistoryIndex, showSuggestions, nextId, timers>>

\* Enter in password mode
SubmitPassword ==
    /\ passwordValue' = ""
    /\ displayValue' = ""
    /\ currentCommand' = ""
    /\ isSudoPasswordPrompt' = FALSE
    /\ isProcessing' = TRUE
    /\ submitted' = [mode |-> "password", text |-> originalSudoCommand]
    /\ IF Len(commandHistory) = 0
       THEN \* sudoCommandEntry is undefined: the assignment in the try block and
            \* the one in the catch block both throw, nothing is dispatched
            UNCHANGED <<commandHistory, execs>>
       ELSE /\ Len(execs) < MaxExecs
            /\ commandHistory' = UpdateLast(commandHistory,
                   [Last(commandHistory) EXCEPT !.isStreaming = "true",
                                                !.output = <<SudoProcessingLine>>])
            /\ execs' = Append(execs, NewExec(Last(commandHistory).id, "sudo",
                                   ExecuteSudoArgs(originalSudoCommand, passwordValue)))
    /\ UNCHANGED <<originalSudoCommand, commandHistoryIndex, showSuggestions, nextId, timers>>

\* a variant that knows no local command
IsClearCommandNever(commandToSend) == FALSE

\* commandToSend === 'cls' || commandToSend === 'clear'
IsClearCommand(commandToSend) == commandToSend \in {"cls", "clear"}

\* a variant that asks for the keyword only
IsSudoCommandLoose(commandToSend) == StartsWith(commandToSend, "sudo")

\* commandToSend.startsWith('sudo ')
IsSudoCommand(commandToSend) == StartsWith(commandToSend, "sudo ")

\* from "Hide suggestions when pressing Enter" to the end of executeCommand,
\* with this.currentCommand = text, this.showSuggestions = show and
\* this.selectedSuggestionIndex = sel
SubmitLine(text, show, sel) ==
    LET commandToSend == Trim(text)
        selecting == show /\ sel >= 0
    IN  IF commandToSend = "" \/ selecting
        THEN /\ showSuggestions' = (IF selecting THEN show ELSE FALSE)
             /\ currentCommand' = text
             /\ submitted' = NoSubmit
             /\ UNCHANGED <<historyVars, commandHistoryIndex, sudoVars, execVars>>
        ELSE IF IsClearCommand(commandToSend)
        THEN /\ submitted' = [mode |-> "line", text |-> commandToSend]
             /\ commandHistory' = <<>>
             /\ currentCommand' = ""
             /\ isProcessing' = FALSE
             /\ showSuggestions' = FALSE
             /\ UNCHANGED <<commandHistoryIndex, sudoVars, execVars>>
        ELSE IF IsSudoCommand(commandToSend)
        THEN /\ nextId < MaxCommands
             /\ submitted' = [mode |-> "line", text |-> commandToSend]
             /\ originalSudoCommand' = commandToSend
             /\ isSudoPasswordPrompt' = TRUE
             /\ passwordValue' = ""
             /\ displayValue' = ""
             /\ currentCommand' = ""
             /\ commandHistory' = Append(commandHistory,
                    NewEntry(nextId + 1, commandToSend, <<SudoPromptLine>>, "true"))
             /\ nextId' = nextId + 1
             /\ isProcessing' = FALSE
             /\ showSuggestions' = FALSE
             /\ UNCHANGED <<commandHistoryIndex, execs, timers>>
        ELSE /\ nextId < MaxCommands
             /\ Len(execs) < MaxExecs
             /\ submitted' = [mode |-> "line", text |-> commandToSend]
             /\ commandHistory' = Append(commandHistory,
                    NewEntry(nextId + 1, commandToSend, <<>>, "undefined"))
             /\ nextId' = nextId + 1
             /\ isProcessing' = TRUE
             /\ showSuggestions' = FALSE
             /\ currentCommand' = ""
             /\ commandHistoryIndex' = -1
             /\ timers' = (IF IsCdCommand(commandToSend) THEN timers + 1 ELSE timers)
             /\ execs' = Append(execs, NewExec(nextId + 1, "command",
                                    ExecuteCommandArgs(commandToSend)))
             /\ UNCHANGED sudoVars

\* executeCommand(event) with event.key = 'Enter' (no Shift) while
\* this.currentCommand = text
executeCommandEnter(text) ==
    IF isSudoPasswordPrompt
    THEN /\ SubmitPassword
         /\ UNCHANGED <<autocompleteSuggestions, selectedSuggestionIndex,
                        autocompleteCalls, dirVars, terminateVars, listeners, backendDirectory, sessionVars>>
    ELSE IF Len(Trim(text)) >= 1 /\ ~isProcessing
    THEN \* await this.requestAutocomplete(): the rest runs when the call settles
         /\ Len(autocompleteCalls) < MaxAutocomplete
         /\ nextId < MaxCommands
         /\ autocompleteCalls' = Append(autocompleteCalls,
                                        [input |-> text, then |-> "enter"])
         /\ currentCommand' = text
         /\ submitted' = NoSubmit
         /\ UNCHANGED <<historyVars, commandHistoryIndex, suggestVars, sudoVars,
                        execVars, dirVars, terminateVars, listeners, backendDirectory, sessionVars>>
    ELSE /\ SubmitLine(text, showSuggestions, selectedSuggestionIndex)
         /\ UNCHANGED <<autocompleteSuggestions, selectedSuggestionIndex,
                        autocompleteCalls, dirVars, terminateVars, listeners, backendDirectory, sessionVars>>

KeyEnter == executeCommandEnter(currentCommand)

executeCodeDirectly(code) == executeCommandEnter(transformCodeForDisplay(code))

sendCodeToTerminal(code) ==
        /\ currentCommand' = transformCodeForDisplay(code)
        /\ submitted' = NoSubmit
        /\ UNCHANGED <<historyVars, commandHistoryIndex, suggestVars, sudoVars,
                       execVars, dirVars, autocompleteCalls, terminateVars, listeners,
                       backendDirectory, sessionVars>>

(***************************************************************************)
(* getCurrentDirectory (homePath is cached once ngOnInit has run; the Git  *)
(* branch label is not modelled).  A call reads the backend's directory at *)
(* some moment between being made and settling; calls settle in any order. *)
(***************************************************************************)
\* a new call; isEnd tells that the command_end listener awaits it
NewDirRequest(isEnd) == [result |-> "", isEnd |-> isEnd]

RemoveAt(q, i) == SubSeq(q, 1, i - 1) \o SubSeq(q, i + 1, Len(q))

\* the backend serves get_working_directory
BackendReadsDirectory ==
    \E i \in 1..Len(dirRequests) :
        /\ dirRequests[i].result = ""
        /\ dirRequests' = [dirRequests EXCEPT ![i].result = backendDirectory]
        /\ submitted' = NoSubmit
        /\ UNCHANGED <<historyVars, inputVars, suggestVars, sudoVars, execVars,
                       currentWorkingDirectory, homePath, autocompleteCalls,
                       terminateVars, listeners, backendDirectory, sessionVars>>

\* the continuation of the command_end listener after await getCurrentDirectory()
AfterDirectoryRefresh(req) == IF req.isEnd THEN FALSE ELSE isProcessing

DirectoryResolved ==
    \E i \in 1..Len(dirRequests) :
        /\ dirRequests[i].result # ""
        /\ currentWorkingDirectory' = ToDisplay(dirRequests[i].result, homePath)
        /\ isProcessing' = AfterDirectoryRefresh(dirRequests[i])
        /\ dirRequests' = RemoveAt(dirRequests, i)
        /\ submitted' = NoSubmit
        /\ UNCHANGED <<commandHistory, inputVars, suggestVars, sudoVars, execVars,
                       homePath, autocompleteCalls, terminateVars, listeners, backendDirectory, sessionVars>>

\* the catch block of getCurrentDirectory
DirectoryRejected ==
    \E i \in 1..Len(dirRequests) :
        /\ isProcessing' = AfterDirectoryRefresh(dirRequests[i])
        /\ dirRequests' = RemoveAt(dirRequests, i)
        /\ submitted' = NoSubmit
        /\ UNCHANGED <<commandHistory, inputVars, suggestVars, sudoVars, execVars,
                       currentWorkingDirectory, homePath, autocompleteCalls,
                       terminateVars, listeners, backendDirectory, sessionVars>>

\* the 50 ms timer set by executeCommand for a cd command
TimerFires ==
    /\ timers > 0
    /\ Len(dirRequests) < MaxDirRequests
    /\ timers' = timers - 1
    /\ dirRequests' = Append(dirRequests, NewDirRequest(FALSE))
    /\ submitted' = NoSubmit
    /\ UNCHANGED <<historyVars, inputVars, suggestVars, sudoVars, nextId, execs,
                   currentWorkingDirectory, homePath, autocompleteCalls,
                   terminateVars, listeners, backendDirectory, sessionVars>>

(***************************************************************************)
(* The backend's side of execute_command / execute_sudo_command, and the   *)
(* continuations and listeners it triggers.                                *)
(***************************************************************************)
\* the directory a cd command leaves the backend in
DirectoryAfter(command, dir) ==
    LET text == Trim(command)
    IN  IF text = "cd" THEN HomeDir
        ELSE IF StartsWith(text, "cd ") /\ Trim(SubSeq(text, 4, Len(text))) \in Dirs
        THEN Trim(SubSeq(text, 4, Len(text)))
        ELSE dir

\* the backend accepts a call and runs the command
BackendStarts ==
    \E x \in 1..Len(execs) :
        /\ execs[x].proc = "none"
        /\ execs[x].call = "pending"
        /\ execs' = [execs EXCEPT ![x].proc = "running"]
        /\ backendDirectory' = DirectoryAfter(execs[x].command, backendDirectory)
        /\ submitted' = NoSubmit
        /\ UNCHANGED <<historyVars, inputVars, suggestVars, sudoVars, nextId, timers,
                       dirVars, autocompleteCalls, terminateVars, listeners, sessionVars>>

\* a variant that resolves whichever entry is last when the call rejects
OnInvokeRejectedLast(h, exec, error) ==
    IF Len(h) = 0 THEN h
    ELSE UpdateLast(h, [Last(h) EXCEPT !.output = <<"Error: " \o error>>,
                                            !.isComplete = TRUE,
                                            !.success = "false"])

\* the catch blocks of executeCommand: the closure's own entry is resolved
OnInvokeRejected(h, exec, error) ==
    UpdateEntry(h, exec.entry,
                [EntryOf(h, exec.entry) EXCEPT !.output = <<"Error: " \o error>>,
                                               !.isComplete = TRUE,
                                               !.success = "false"])

InvokeRejected(error) ==
    \E x \in 1..Len(execs) :
        /\ execs[x].proc = "none"
        /\ execs[x].call = "pending"
        /\ execs' = [execs EXCEPT ![x].call = "rejected"]
        /\ commandHistory' = OnInvokeRejected(commandHistory, execs[x], error)
        /\ isProcessing' = FALSE
        /\ submitted' = NoSubmit
        /\ UNCHANGED <<inputVars, suggestVars, sudoVars, nextId, timers, dirVars,
                       autocompleteCalls, terminateVars, listeners, backendDirectory, sessionVars>>

\* after await invoke("execute_command"): a non-blank result is pushed to the
\* closure's entry; after await invoke("execute_sudo_command") nothing is done
OnInvokeResolved(h, exec, result) ==
    IF exec.kind = "command" /\ result # "" /\ Trim(result) # ""
    THEN UpdateEntry(h, exec.entry, [EntryOf(h, exec.entry) EXCEPT !.output = Append(@, result)])
    ELSE h

InvokeResolved(result) ==
    \E x \in 1..Len(execs) :
        /\ execs[x].proc # "none"
        /\ execs[x].call = "pending"
        /\ execs' = [execs EXCEPT ![x].call = "resolved"]
        /\ commandHistory' = OnInvokeResolved(commandHistory, execs[x], result)
        /\ submitted' = NoSubmit
        /\ UNCHANGED <<isProcessing, inputVars, suggestVars, sudoVars, nextId, timers,
                       dirVars, autocompleteCalls, terminateVars, listeners, backendDirectory, sessionVars>>

\* the command_output listener
OnCommandOutput(h, outputLine) ==
    IF Len(h) = 0 THEN h
    ELSE LET cur == Last(h)
             isSudo == StartsWith(cur.command, "sudo ")
             out1 == IF /\ cur.isStreaming # "true"
                        /\ Len(cur.output) = 1
                        /\ cur.output[1] \in {"Processing...", SudoProcessingLine}
                     THEN <<>> ELSE cur.output
             skipLine == \/ outputLine = StartedMarker
                         \/ outputLine = SudoStartedMarker
                         \/ (isSudo /\ Includes(outputLine, "[sudo] password for"))
             out2 == IF isSudo /\ Len(out1) = 1 /\ out1[1] = SudoProcessingLine
                     THEN <<>> ELSE out1
         IN  UpdateLast(h, [Last(h) EXCEPT !.isStreaming = "true",
                           !.output = IF skipLine THEN out1 ELSE Append(out2, outputLine)])

CommandOutput(line) ==
    \E x \in 1..Len(execs) :
        /\ execs[x].proc = "running"
        /\ execs[x].lines < MaxLines
        /\ execs' = [execs EXCEPT ![x].lines = @ + 1]
        /\ commandHistory' = (IF listeners >= 1 THEN OnCommandOutput(commandHistory, line)
                              ELSE commandHistory)
        /\ submitted' = NoSubmit
        /\ UNCHANGED <<isProcessing, inputVars, suggestVars, sudoVars, nextId, timers,
                       dirVars, autocompleteCalls, terminateVars, listeners, backendDirectory, sessionVars>>

\* a variant that drops the entry it was to update
OnCommandErrorDropping(h, line) == SubSeq(h, 1, Len(h) - 1)

\* the command_error listener
OnCommandError(h, line) ==
    IF Len(h) = 0 THEN h
    ELSE UpdateLast(h, [Last(h) EXCEPT !.output = Append(@, line)])

CommandError(line) ==
    \E x \in 1..Len(execs) :
        /\ execs[x].proc = "running"
        /\ execs[x].lines < MaxLines
        /\ execs' = [execs EXCEPT ![x].lines = @ + 1]
        /\ commandHistory' = (IF listeners >= 2 THEN OnCommandError(commandHistory, line)
                              ELSE commandHistory)
        /\ submitted' = NoSubmit
        /\ UNCHANGED <<isProcessing, inputVars, suggestVars, sudoVars, nextId, timers,
                       dirVars, autocompleteCalls, terminateVars, listeners, backendDirectory, sessionVars>>

\* the command_end listener, up to its await
OnCommandEnd(h, message) ==
    IF Len(h) = 0 THEN h
    ELSE UpdateLast(h, [Last(h) EXCEPT !.isComplete = TRUE,
                       !.isStreaming = "false",
                       !.success = IF message = SuccessMessage THEN "true" ELSE "false"])

CommandEnd(message) ==
    \E x \in 1..Len(execs) :
        /\ execs[x].proc = "running"
        /\ execs' = [execs EXCEPT ![x].proc = "ended", ![x].lines = 0,
                                   ![x].endMessage = message]
        /\ commandHistory' = (IF listeners >= 3 THEN OnCommandEnd(commandHistory, message)
                              ELSE commandHistory)
        /\ IF Len(commandHistory) = 0 \/ listeners < 3
           THEN UNCHANGED <<isProcessing, dirRequests>>
           ELSE IF IsCdCommand(Trim(Last(commandHistory).command))
           THEN /\ Len(dirRequests) < MaxDirRequests
                /\ dirRequests' = Append(dirRequests, NewDirRequest(TRUE))
                /\ UNCHANGED isProcessing
           ELSE /\ isProcessing' = FALSE
                /\ UNCHANGED dirRequests
        /\ submitted' = NoSubmit
        /\ UNCHANGED <<inputVars, suggestVars, sudoVars, nextId, timers,
                       currentWorkingDirectory, homePath, autocompleteCalls,
                       terminateVars, listeners, backendDirectory, sessionVars>>

(***************************************************************************)
(* terminateCommand.                                                       *)
(***************************************************************************)
terminateCommand ==
    /\ terminateCount < MaxTerminate
    /\ terminateCount' = terminateCount + 1
    /\ isProcessing' = FALSE
    /\ showSuggestions' = FALSE
    /\ autocompleteSuggestions' = <<>>
    /\ IF Len(commandHistory) = 0
       THEN UNCHANGED <<commandHistory, terminateCalls, cancelled>>
       ELSE /\ cancelled' = cancelled \cup {Last(commandHistory).id}
            /\ commandHistory' = UpdateLast(commandHistory, [Last(commandHistory) EXCEPT !.output = Append(@, TerminatingLine),
                             !.isComplete = TRUE,
                             !.isStreaming = "false",
                             !.success = "false"])
            /\ terminateCalls' = terminateCalls + 1
    /\ submitted' = NoSubmit
    /\ UNCHANGED <<inputVars, selectedSuggestionIndex, sudoVars, execVars, dirVars,
                   autocompleteCalls, terminations, listeners, backendDirectory,
                   sessionVars>>

\* a variant that reports the backend's answer in the cancelled entry
OnTerminateSettledReporting(h) ==
    IF Len(h) = 0 THEN h
    ELSE UpdateLast(h, [Last(h) EXCEPT !.output = Append(@, "\nterminated")])

\* the .then and .catch callbacks of invoke("terminate_command") only log
OnTerminateSettled(h) == h

TerminateSettled ==
    /\ terminateCalls > 0
    /\ terminateCalls' = terminateCalls - 1
    /\ commandHistory' = OnTerminateSettled(commandHistory)
    /\ submitted' = NoSubmit
    /\ UNCHANGED <<isProcessing, inputVars, suggestVars, sudoVars, execVars, dirVars,
                   autocompleteCalls, terminateCount, cancelled, terminations,
                   listeners, backendDirectory, sessionVars>>

(***************************************************************************)
(* Autocomplete.                                                           *)
(***************************************************************************)
\* the backend's autocomplete command: a function of the input
BackendSuggest(input) ==
    LET text == Trim(input)
    IN  IF text = "ls" THEN <<"ls", "lsof">>
        ELSE IF text = "cd /tmp" THEN <<"/tmp/">>
        ELSE IF text = "clear" THEN <<"clear">>
        ELSE IF text = "sudo l" THEN <<"ls", "lsof">>
        ELSE <<>>

\* autocompleteSuggestions[i] of JavaScript (0-based), "undefined" out of range
SuggestionAt(list, i) == IF i + 1 \in 1..Len(list) THEN list[i + 1] ELSE "undefined"

\* the value applySuggestion leaves in currentCommand
applySuggestion(text, suggestion) ==
    LET t == Trim(text)
    IN  IF IndexOf(t, " ") = -1 THEN suggestion ELSE FirstPart(t) \o " " \o suggestion

\* a call made by requestAutocomplete (the input is known to be non-blank);
\* then: what the caller does once the call settled
NewAutocompleteCall(input, then) == [input |-> input, then |-> then]

\* the (input) event: the textarea's new content reaches currentCommand, then
\* onKeyInput runs.  Keys pressed in password mode have their default action
\* prevented, so the content changes in normal mode only.
onKeyInput(text) ==
        /\ ~isSudoPasswordPrompt
        /\ currentCommand' = text
        /\ IF Len(Trim(text)) = 0
           THEN /\ showSuggestions' = FALSE
                /\ UNCHANGED autocompleteCalls
           ELSE IF ~isProcessing
           THEN /\ Len(autocompleteCalls) < MaxAutocomplete
                /\ autocompleteCalls' = Append(autocompleteCalls,
                                               NewAutocompleteCall(text, "none"))
                /\ UNCHANGED showSuggestions
           ELSE UNCHANGED <<showSuggestions, autocompleteCalls>>
        /\ submitted' = NoSubmit
        /\ UNCHANGED <<historyVars, commandHistoryIndex, autocompleteSuggestions,
                       selectedSuggestionIndex, sudoVars, execVars, dirVars,
                       terminateVars, listeners, backendDirectory, sessionVars>>

\* executeCommand in normal mode for a key that is none of Escape, Tab, Enter,
\* ArrowLeft, ArrowRight (nor an arrow that navigates the history): the
\* background request
KeyOther ==
    /\ ~isSudoPasswordPrompt
    /\ Len(Trim(currentCommand)) >= 1
    /\ ~isProcessing
    /\ Len(autocompleteCalls) < MaxAutocomplete
    /\ autocompleteCalls' = Append(autocompleteCalls,
                                   NewAutocompleteCall(currentCommand, "none"))
    /\ submitted' = NoSubmit
    /\ UNCHANGED <<historyVars, inputVars, suggestVars, sudoVars, execVars, dirVars,
                   terminateVars, listeners, backendDirectory, sessionVars>>

\* executeCommand, key Tab
KeyTab ==
    /\ ~isSudoPasswordPrompt
    /\ Len(Trim(currentCommand)) >= 1
    /\ IF showSuggestions /\ selectedSuggestionIndex >= 0
       THEN /\ currentCommand' = applySuggestion(currentCommand,
                    SuggestionAt(autocompleteSuggestions, selectedSuggestionIndex))
            /\ showSuggestions' = FALSE
            /\ selectedSuggestionIndex' = -1
            /\ UNCHANGED autocompleteCalls
       ELSE /\ Len(autocompleteCalls) < MaxAutocomplete
            /\ autocompleteCalls' = Append(autocompleteCalls,
                                           NewAutocompleteCall(currentCommand, "tab"))
            /\ UNCHANGED <<currentCommand, showSuggestions, selectedSuggestionIndex>>
    /\ submitted' = NoSubmit
    /\ UNCHANGED <<historyVars, commandHistoryIndex, autocompleteSuggestions, sudoVars,
                   execVars, dirVars, terminateVars, listeners, backendDirectory, sessionVars>>

\* a variant that lists a single candidate instead of applying it
AfterTabListing(suggestions, show, sel) ==
    IF Len(suggestions) = 0
    THEN /\ showSuggestions' = show
         /\ selectedSuggestionIndex' = sel
         /\ UNCHANGED currentCommand
    ELSE /\ showSuggestions' = TRUE
         /\ selectedSuggestionIndex' = 0
         /\ UNCHANGED currentCommand

\* the rest of the Tab branch, after await this.requestAutocomplete()
AfterTab(suggestions, show, sel) ==
    IF Len(suggestions) = 0
    THEN /\ showSuggestions' = show
         /\ selectedSuggestionIndex' = sel
         /\ UNCHANGED currentCommand
    ELSE IF Len(suggestions) = 1
    THEN /\ currentCommand' = applySuggestion(currentCommand, suggestions[1])
         /\ showSuggestions' = FALSE
         /\ selectedSuggestionIndex' = -1
    ELSE /\ showSuggestions' = TRUE
         /\ selectedSuggestionIndex' = 0
         /\ UNCHANGED currentCommand

\* a variant whose background request also clears the busy flag
AfterAutocompleteIdling(then, suggestions, show, sel) ==
    IF then = "enter"
    THEN /\ SubmitLine(currentCommand, show, sel)
         /\ selectedSuggestionIndex' = sel
    ELSE /\ (IF then = "tab"
             THEN AfterTab(suggestions, show, sel)
             ELSE /\ showSuggestions' = show
                  /\ selectedSuggestionIndex' = sel
                  /\ UNCHANGED currentCommand)
         /\ submitted' = NoSubmit
         /\ isProcessing' = FALSE
         /\ UNCHANGED <<commandHistory, commandHistoryIndex, sudoVars, execVars>>

\* what follows await this.requestAutocomplete() in the caller
AfterAutocomplete(then, suggestions, show, sel) ==
    IF then = "enter"
    THEN /\ SubmitLine(currentCommand, show, sel)
         /\ selectedSuggestionIndex' = sel
    ELSE IF then = "tab"
    THEN /\ AfterTab(suggestions, show, sel)
         /\ submitted' = NoSubmit
         /\ UNCHANGED <<historyVars, commandHistoryIndex, sudoVars, execVars>>
    ELSE /\ showSuggestions' = show
         /\ selectedSuggestionIndex' = sel
         /\ submitted' = NoSubmit
         /\ UNCHANGED <<historyVars, inputVars, sudoVars, execVars>>

\* invoke("autocomplete") resolves
AutocompleteResolved ==
    \E i \in 1..Len(autocompleteCalls) :
        LET call == autocompleteCalls[i]
            suggestions == BackendSuggest(call.input)
        IN  /\ autocompleteCalls' = RemoveAt(autocompleteCalls, i)
            /\ autocompleteSuggestions' = suggestions
            /\ AfterAutocomplete(call.then, suggestions, showSuggestions, -1)
            /\ UNCHANGED <<dirVars, terminateVars, listeners, backendDirectory, sessionVars>>

\* invoke("autocomplete") rejects: the catch block of requestAutocomplete
AutocompleteRejected ==
    \E i \in 1..Len(autocompleteCalls) :
        LET call == autocompleteCalls[i]
        IN  /\ autocompleteCalls' = RemoveAt(autocompleteCalls, i)
            /\ autocompleteSuggestions' = <<>>
            /\ AfterAutocomplete(call.then, <<>>, FALSE, selectedSuggestionIndex)
            /\ UNCHANGED <<dirVars, terminateVars, listeners, backendDirectory, sessionVars>>

\* a click on a suggestion of the list
selectSuggestion ==
    \E k \in 1..Len(autocompleteSuggestions) :
        /\ showSuggestions
        /\ currentCommand' = applySuggestion(currentCommand, autocompleteSuggestions[k])
        /\ showSuggestions' = FALSE
        /\ selectedSuggestionIndex' = -1
        /\ submitted' = NoSubmit
        /\ UNCHANGED <<historyVars, commandHistoryIndex, autocompleteSuggestions,
                       sudoVars, execVars, dirVars, autocompleteCalls, terminateVars, listeners,
                       backendDirectory, sessionVars>>

\* a variant that does not bound the selection by the list
MinLeft(a, b) == a

Min(a, b) == IF a < b THEN a ELSE b
Max(a, b) == IF a > b THEN a ELSE b

navigateToSuggestion ==
    \E direction \in {"up", "down"} :
        /\ showSuggestions
        /\ Len(autocompleteSuggestions) # 0
        /\ selectedSuggestionIndex' =
               (IF direction = "down"
                THEN Min(selectedSuggestionIndex + 1, Len(autocompleteSuggestions) - 1)
                ELSE Max(selectedSuggestionIndex - 1, 0))
        /\ submitted' = NoSubmit
        /\ UNCHANGED <<historyVars, inputVars, autocompleteSuggestions, showSuggestions,
                       sudoVars, execVars, dirVars, autocompleteCalls, terminateVars, listeners,
                       backendDirectory, sessionVars>>

(***************************************************************************)
(* The other keys of executeCommand.                                       *)
(***************************************************************************)
KeyEscape ==
    /\ showSuggestions' = FALSE
    /\ submitted' = NoSubmit
    /\ UNCHANGED <<historyVars, inputVars, autocompleteSuggestions,
                   selectedSuggestionIndex, sudoVars, execVars, dirVars,
                   autocompleteCalls, terminateVars, listeners, backendDirectory, sessionVars>>

\* ArrowUp / ArrowDown while no suggestion list is shown: navigateCommandHistory.
\* The index it assigns, for a history of len > 0 entries (0-based, -1: not
\* navigating).
NavigateIndex(len, index, direction) ==
    IF direction = "up"
    THEN IF index = -1 THEN len - 1 ELSE Max(0, index - 1)
    ELSE IF index = -1 THEN -1
    ELSE IF index + 1 >= len THEN -1
    ELSE index + 1

\* commandHistory[i] of JavaScript is commandHistory[i + 1] here.  Reading
\* .command of an entry that does not exist throws after the index was
\* assigned.
navigateCommandHistory(direction) ==
    IF Len(commandHistory) = 0 \/ isProcessing
    THEN UNCHANGED inputVars
    ELSE LET index == NavigateIndex(Len(commandHistory), commandHistoryIndex, direction)
         IN  IF direction = "down" /\ commandHistoryIndex = -1
             THEN UNCHANGED inputVars
             ELSE IF index = -1
             THEN /\ currentCommand' = ""
                  /\ commandHistoryIndex' = -1
             ELSE IF index + 1 \in 1..Len(commandHistory)
             THEN /\ commandHistoryIndex' = index
                  /\ currentCommand' = commandHistory[index + 1].command
             ELSE /\ commandHistoryIndex' = index
                  /\ UNCHANGED currentCommand

ArrowKey(direction) ==
    /\ ~showSuggestions
    /\ navigateCommandHistory(direction)
    /\ submitted' = NoSubmit
    /\ UNCHANGED <<historyVars, suggestVars, sudoVars, execVars, dirVars,
                   autocompleteCalls, terminateVars, listeners, backendDirectory, sessionVars>>

KeyArrow == \E direction \in {"up", "down"} : ArrowKey(direction)

\* a printable key in password mode
PasswordKey ==
    \E key \in PasswordKeys :
        /\ isSudoPasswordPrompt
        /\ Len(passwordValue) < MaxPassword
        /\ passwordValue' = passwordValue \o key
        /\ displayValue' = Repeat("*", Len(passwordValue) + 1)
        /\ currentCommand' = Repeat("*", Len(passwordValue) + 1)
        /\ submitted' = NoSubmit
        /\ UNCHANGED <<historyVars, commandHistoryIndex, suggestVars,
                       isSudoPasswordPrompt, originalSudoCommand, execVars, dirVars,
                       autocompleteCalls, terminateVars, listeners, backendDirectory, sessionVars>>

\* Backspace in password mode
PasswordBackspace ==
    /\ isSudoPasswordPrompt
    /\ passwordValue' = DropLast(passwordValue)
    /\ displayValue' = Repeat("*", Len(DropLast(passwordValue)))
    /\ currentCommand' = Repeat("*", Len(DropLast(passwordValue)))
    /\ submitted' = NoSubmit
    /\ UNCHANGED <<historyVars, commandHistoryIndex, suggestVars,
                   isSudoPasswordPrompt, originalSudoCommand, execVars, dirVars,
                   autocompleteCalls, terminateVars, listeners, backendDirectory, sessionVars>>

(***************************************************************************)
(* The session table: terminal tabs, each with its own working directory.  *)
(***************************************************************************)
\* the working directory the session reports (pwd)
currentDirectory(table, s) == table[s].workingDirectory

\* a variant in which the tabs share one working directory
SessionRunShared(table, s, command) ==
    [t \in SessionIds |->
        IF table[t].open
        THEN [table[t] EXCEPT !.workingDirectory =
                  DirectoryAfter(command, table[s].workingDirectory)]
        ELSE table[t]]

\* the session table after a command has run in session s
SessionRun(table, s, command) ==
    [table EXCEPT ![s].workingDirectory = DirectoryAfter(command, @)]

\* the "+" button: a new tab, which becomes the active one
createSession ==
    \E s \in SessionIds :
        /\ ~sessions[s].open
        /\ \A t \in 1..(s - 1) : sessions[t].open
        /\ sessions' = [sessions EXCEPT ![s] = OpenSession(HomeDir)]
        /\ activeSession' = s
        /\ submitted' = NoSubmit
        /\ UNCHANGED <<historyVars, inputVars, suggestVars, sudoVars, execVars,
                       dirVars, autocompleteCalls, terminateVars, listeners, backendDirectory>>

\* a click on another tab
switchSession(s) ==
    /\ sessions[s].open
    /\ s # activeSession
    /\ activeSession' = s
    /\ submitted' = NoSubmit
    /\ UNCHANGED <<historyVars, inputVars, suggestVars, sudoVars, execVars,
                   dirVars, autocompleteCalls, terminateVars, listeners, backendDirectory, sessions>>

\* a tab is closed; the last tab stays
closeSession(s) ==
    /\ sessions[s].open
    /\ \E t \in SessionIds \ {s} : sessions[t].open
    /\ sessions' = [sessions EXCEPT ![s] = ClosedSession]
    /\ activeSession' = IF s # activeSession THEN activeSession
                        ELSE CHOOSE t \in SessionIds \ {s} :
                                 /\ sessions[t].open
                                 /\ \A u \in SessionIds \ {s} : sessions[u].open => t <= u
    /\ submitted' = NoSubmit
    /\ UNCHANGED <<historyVars, inputVars, suggestVars, sudoVars, execVars,
                   dirVars, autocompleteCalls, terminateVars, listeners, backendDirectory>>

\* a command runs to completion in the active tab
runInSession(command) ==
    /\ sessions[activeSession].open
    /\ sessions' = SessionRun(sessions, activeSession, command)
    /\ submitted' = NoSubmit
    /\ UNCHANGED <<historyVars, inputVars, suggestVars, sudoVars, execVars,
                   dirVars, autocompleteCalls, terminateVars, listeners, backendDirectory,
                   activeSession>>

(***************************************************************************)
(* Start-up: ngOnInit awaits getCurrentDirectory and testOllamaConnection, *)
(* then registers the three listeners one await after the other.           *)
(***************************************************************************)
ListenerRegistered ==
    /\ listeners < 3
    /\ listeners' = listeners + 1
    /\ submitted' = NoSubmit
    /\ UNCHANGED <<historyVars, inputVars, suggestVars, sudoVars, execVars, dirVars,
                   autocompleteCalls, terminateVars, backendDirectory, sessionVars>>

(***************************************************************************)
(* The older variant of the component (src/unnamed/part_004): Ctrl+C is    *)
(* live, terminateCommand awaits the backend against a 2000 ms timer, and  *)
(* there is no password mode.                                              *)
(***************************************************************************)
TimedOutMessage == "Termination timed out, but UI is responsive"
TerminateErrorLine == "\nError terminating command, but UI is responsive"
TerminateResults == {"Command terminated"}
TerminateOutcomes == {"resolved", "rejected", "timeout"}

\* the (input) event of the older variant
onKeyInput004(text) ==
    /\ currentCommand' = text
    /\ IF Len(Trim(text)) = 0
       THEN /\ showSuggestions' = FALSE
            /\ UNCHANGED autocompleteCalls
       ELSE IF ~isProcessing
       THEN /\ Len(autocompleteCalls) < MaxAutocomplete
            /\ autocompleteCalls' = Append(autocompleteCalls,
                                           NewAutocompleteCall(text, "none"))
            /\ UNCHANGED showSuggestions
       ELSE UNCHANGED <<showSuggestions, autocompleteCalls>>
    /\ submitted' = NoSubmit
    /\ UNCHANGED <<historyVars, commandHistoryIndex, autocompleteSuggestions,
                   selectedSuggestionIndex, sudoVars, execVars, dirVars,
                   terminateVars, listeners, backendDirectory, sessionVars>>

\* executeCommand of the older variant, key Enter: the background request is
\* not awaited
KeyEnter004 ==
    LET commandToSend == Trim(currentCommand)
        selecting == showSuggestions /\ selectedSuggestionIndex >= 0
        requests == Len(commandToSend) >= 1 /\ ~isProcessing
    IN  /\ requests => Len(autocompleteCalls) < MaxAutocomplete
        /\ autocompleteCalls' =
               (IF requests
                THEN Append(autocompleteCalls, NewAutocompleteCall(currentCommand, "none"))
                ELSE autocompleteCalls)
        /\ IF commandToSend = "" \/ selecting
           THEN /\ showSuggestions' = selecting
                /\ submitted' = NoSubmit
                /\ UNCHANGED <<historyVars, inputVars, execVars>>
           ELSE /\ nextId < MaxCommands
                /\ Len(execs) < MaxExecs
                /\ submitted' = [mode |-> "line", text |-> commandToSend]
                /\ isProcessing' = TRUE
                /\ showSuggestions' = FALSE
                /\ commandHistory' = Append(commandHistory,
                       NewEntry(nextId + 1, commandToSend, <<>>, "undefined"))
                /\ nextId' = nextId + 1
                /\ currentCommand' = ""
                /\ commandHistoryIndex' = -1
                /\ timers' = (IF IsCdCommand(commandToSend) THEN timers + 1 ELSE timers)
                /\ execs' = Append(execs, NewExec(nextId + 1, "command",
                                       ExecuteCommandArgs(commandToSend)))
        /\ UNCHANGED <<autocompleteSuggestions, selectedSuggestionIndex, sudoVars,
                       dirVars, terminateVars, listeners, backendDirectory, sessionVars>>

\* the command_output listener of the older variant
OnCommandOutput004(h, outputLine) ==
    IF Len(h) = 0 THEN h
    ELSE LET cur == Last(h)
             out == IF /\ cur.isStreaming # "true"
                       /\ cur.output = <<"Processing...">>
                    THEN <<>> ELSE cur.output
         IN  UpdateLast(h, [cur EXCEPT !.isStreaming = "true",
                                       !.output = Append(out, outputLine)])

CommandOutput004(line) ==
    \E x \in 1..Len(execs) :
        /\ execs[x].proc = "running"
        /\ execs[x].lines < MaxLines
        /\ execs' = [execs EXCEPT ![x].lines = @ + 1]
        /\ commandHistory' = (IF listeners >= 1 THEN OnCommandOutput004(commandHistory, line)
                              ELSE commandHistory)
        /\ submitted' = NoSubmit
        /\ UNCHANGED <<isProcessing, inputVars, suggestVars, sudoVars, nextId, timers,
                       dirVars, autocompleteCalls, terminateVars, listeners,
                       backendDirectory, sessionVars>>

\* navigateCommandHistory of the older variant: ArrowDown has no test for -1
NavigateIndex004(len, index, direction) ==
    IF direction = "up"
    THEN IF index = -1 THEN len - 1 ELSE Max(0, index - 1)
    ELSE IF index + 1 >= len THEN -1
    ELSE index + 1

navigateCommandHistory004(direction) ==
    IF Len(commandHistory) = 0 \/ isProcessing
    THEN UNCHANGED inputVars
    ELSE LET index == NavigateIndex004(Len(commandHistory), commandHistoryIndex, direction)
         IN  IF index = -1
             THEN /\ currentCommand' = ""
                  /\ commandHistoryIndex' = -1
             ELSE IF index + 1 \in 1..Len(commandHistory)
             THEN /\ commandHistoryIndex' = index
                  /\ currentCommand' = commandHistory[index + 1].command
             ELSE /\ commandHistoryIndex' = index
                  /\ UNCHANGED currentCommand

ArrowKey004(direction) ==
    /\ ~showSuggestions
    /\ navigateCommandHistory004(direction)
    /\ submitted' = NoSubmit
    /\ UNCHANGED <<historyVars, suggestVars, sudoVars, execVars, dirVars,
                   autocompleteCalls, terminateVars, listeners, backendDirectory, sessionVars>>

KeyArrow004 == \E direction \in {"up", "down"} : ArrowKey004(direction)

\* terminateCommand of the older variant up to its first await
\* (setTimeout 0); the entry is held by reference
terminateCommand004 ==
    /\ terminateCount < MaxTerminate
    /\ terminateCount' = terminateCount + 1
    /\ isProcessing' = FALSE
    /\ showSuggestions' = FALSE
    /\ autocompleteSuggestions' = <<>>
    /\ IF Len(commandHistory) = 0
       THEN UNCHANGED <<commandHistory, terminations, cancelled>>
       ELSE /\ cancelled' = cancelled \cup {Last(commandHistory).id}
            /\ commandHistory' = UpdateLast(commandHistory,
                   [Last(commandHistory) EXCEPT !.output = Append(@, TerminatingLine),
                                                !.isComplete = TRUE,
                                                !.isStreaming = "false",
                                                !.success = "false"])
            /\ terminations' = Append(terminations,
                   [entry |-> Last(commandHistory).id, stage |-> "yield"])
    /\ submitted' = NoSubmit
    /\ UNCHANGED <<inputVars, selectedSuggestionIndex, sudoVars, execVars, dirVars,
                   autocompleteCalls, terminateCalls, listeners, backendDirectory,
                   sessionVars>>

\* the global keydown handler of the older variant: Ctrl+C while a command runs
KeyCtrlC004 == isProcessing /\ terminateCommand004

\* setTimeout 0 fired: terminate_command is invoked and raced against the
\* 2000 ms timer
TerminateYielded004 ==
    \E i \in 1..Len(terminations) :
        /\ terminations[i].stage = "yield"
        /\ terminations' = [terminations EXCEPT ![i].stage = "race"]
        /\ terminateCalls' = terminateCalls + 1
        /\ submitted' = NoSubmit
        /\ UNCHANGED <<historyVars, inputVars, suggestVars, sudoVars, execVars, dirVars,
                       autocompleteCalls, terminateCount, cancelled, listeners,
                       backendDirectory, sessionVars>>

\* the line pushed after the race: the result (which is the timer's message
\* when the timer won) or the catch block's line
ReportLine004(outcome, result) ==
    IF outcome = "resolved" THEN "\n" \o result
    ELSE IF outcome = "timeout" THEN "\n" \o TimedOutMessage
    ELSE TerminateErrorLine

\* a variant that reports to whichever entry is last
OnTerminateReport004Last(h, id, line) ==
    IF Len(h) = 0 THEN h
    ELSE UpdateLast(h, [Last(h) EXCEPT !.output = Append(@, line),
                                       !.isComplete = TRUE,
                                       !.isStreaming = "false"])

\* the push after the race and the finally block, on the entry held
OnTerminateReport004(h, id, line) ==
    UpdateEntry(h, id, [EntryOf(h, id) EXCEPT !.output = Append(@, line),
                                              !.isComplete = TRUE,
                                              !.isStreaming = "false"])

\* the race is decided.  When the timer wins, the call stays pending.
TerminateReports004(outcome, result) ==
    \E i \in 1..Len(terminations) :
        /\ terminations[i].stage = "race"
        /\ terminations' = RemoveAt(terminations, i)
        /\ terminateCalls' = (IF outcome = "timeout" THEN terminateCalls
                              ELSE terminateCalls - 1)
        /\ commandHistory' = OnTerminateReport004(commandHistory, terminations[i].entry,
                                                  ReportLine004(outcome, result))
        /\ isProcessing' = FALSE
        /\ submitted' = NoSubmit
        /\ UNCHANGED <<inputVars, suggestVars, sudoVars, execVars, dirVars,
                       autocompleteCalls, terminateCount, cancelled, listeners,
                       backendDirectory, sessionVars>>

\* the calls that lost their race
LateCalls004 ==
    terminateCalls - Cardinality({i \in 1..Len(terminations) : terminations[i].stage = "race"})

\* a call that lost its race settles: Promise.race has settled already and
\* nothing listens
TerminateSettledLate004 ==
    /\ LateCalls004 > 0
    /\ terminateCalls' = terminateCalls - 1
    /\ submitted' = NoSubmit
    /\ UNCHANGED <<historyVars, inputVars, suggestVars, sudoVars, execVars, dirVars,
                   autocompleteCalls, terminateCount, cancelled, terminations, listeners,
                   backendDirectory, sessionVars>>

(***************************************************************************)
(* Specifications.  Each one lets the user and the backend take a subset   *)
(* of the steps above, so that the part of the program a property is about *)
(* is explored exhaustively.                                               *)
(***************************************************************************)
\* the backend's steps for execute_command / execute_sudo_command
BackendRuns ==
    \/ BackendStarts
    \/ \E error \in ErrorReasons : InvokeRejected(error)
    \/ \E result \in InvokeResults : InvokeResolved(result)
    \/ \E line \in OutputLines : CommandOutput(line)
    \/ \E line \in ErrorLines : CommandError(line)
    \/ \E message \in EndMessages : CommandEnd(message)

\* running and cancelling commands
ExecTexts == {"ls", "clear"}
ExecCodes == {Fence \o "ls" \o Fence}

NextExec ==
    \/ \E text \in ExecTexts : onKeyInput(text)
    \/ KeyEnter
    \/ \E code \in ExecCodes : executeCodeDirectly(code)
    \/ AutocompleteResolved
    \/ AutocompleteRejected
    \/ terminateCommand
    \/ TerminateSettled
    \/ BackendRuns

SpecExec == Init /\ [][NextExec]_vars

\* the input line, the password prompt and autocomplete
SudoTexts == {"ls", "sudo ls", "sudo"}
SudoCodes == {Fence \o "ls" \o Fence}

NextSudo ==
    \/ \E text \in SudoTexts : onKeyInput(text)
    \/ KeyEnter
    \/ \E code \in SudoCodes : sendCodeToTerminal(code)
    \/ KeyOther
    \/ KeyTab
    \/ KeyEscape
    \/ KeyArrow
    \/ PasswordKey
    \/ PasswordBackspace
    \/ selectSuggestion
    \/ navigateToSuggestion
    \/ AutocompleteResolved
    \/ AutocompleteRejected
    \/ BackendStarts
    \/ \E error \in ErrorReasons : InvokeRejected(error)
    \/ \E result \in InvokeResults : InvokeResolved(result)

SpecSudo == Init /\ [][NextSudo]_vars

\* cd and the two refreshes of the prompt's directory
CdTexts == {"cd /tmp", "ls"}

NextCd ==
    \/ \E text \in CdTexts : onKeyInput(text)
    \/ KeyEnter
    \/ AutocompleteResolved
    \/ AutocompleteRejected
    \/ TimerFires
    \/ BackendReadsDirectory
    \/ DirectoryResolved
    \/ BackendStarts
    \/ \E result \in InvokeResults : InvokeResolved(result)
    \/ \E message \in EndMessages : CommandEnd(message)

SpecCd == Init /\ [][NextCd]_vars

\* commands run under fair delivery: the backend takes up every call it is
\* sent, every call settles and every command's command_end arrives
LiveTexts == {"ls"}

NextLive ==
    \/ \E text \in LiveTexts : onKeyInput(text)
    \/ KeyEnter
    \/ AutocompleteResolved
    \/ AutocompleteRejected
    \/ BackendStarts
    \/ \E error \in ErrorReasons : InvokeRejected(error)
    \/ \E result \in InvokeResults : InvokeResolved(result)
    \/ \E line \in OutputLines : CommandOutput(line)
    \/ \E message \in EndMessages : CommandEnd(message)

SpecLive ==
    /\ Init
    /\ [][NextLive]_vars
    /\ WF_vars(AutocompleteResolved)
    /\ WF_vars(BackendStarts)
    /\ WF_vars(\E result \in InvokeResults : InvokeResolved(result))
    /\ WF_vars(\E message \in EndMessages : CommandEnd(message))

\* the terminal tabs
SessionTexts == {"cd /tmp", "cd /var", "cd", "pwd"}

NextSessions ==
    \/ createSession
    \/ \E s \in SessionIds : switchSession(s)
    \/ \E s \in SessionIds : closeSession(s)
    \/ \E command \in SessionTexts : runInSession(command)

SpecSessions == Init /\ [][NextSessions]_vars

\* the backend's markers on each channel
MarkerTexts == {"ls", "sudo ls"}

NextMarkers ==
    \/ \E text \in MarkerTexts : onKeyInput(text)
    \/ KeyEnter
    \/ AutocompleteResolved
    \/ AutocompleteRejected
    \/ BackendStarts
    \/ \E result \in MarkerLines : InvokeResolved(result)
    \/ \E line \in MarkerLines : CommandOutput(line)
    \/ \E line \in MarkerLines : CommandError(line)
    \/ \E message \in EndMessages : CommandEnd(message)

SpecMarkers == Init /\ [][NextMarkers]_vars

\* the keys of the password prompt
PromptTexts == {"sudo ls"}

NextPrompt ==
    \/ \E text \in PromptTexts : onKeyInput(text)
    \/ KeyEnter
    \/ AutocompleteResolved
    \/ AutocompleteRejected
    \/ KeyOther
    \/ KeyTab
    \/ KeyEscape
    \/ KeyArrow
    \/ PasswordKey
    \/ PasswordBackspace
    \/ BackendStarts
    \/ \E error \in ErrorReasons : InvokeRejected(error)
    \/ \E result \in InvokeResults : InvokeResolved(result)
    \/ terminateCommand
    \/ TerminateSettled

SpecPrompt == Init /\ [][NextPrompt]_vars

\* the suggestion list: typing, Tab, the list's own keys, submission and
\* cancellation
SuggestTexts == {"ls", "cd /tmp"}

NextSuggest ==
    \/ \E text \in SuggestTexts : onKeyInput(text)
    \/ KeyOther
    \/ KeyTab
    \/ KeyEnter
    \/ KeyEscape
    \/ selectSuggestion
    \/ navigateToSuggestion
    \/ AutocompleteResolved
    \/ AutocompleteRejected
    \/ terminateCommand
    \/ TerminateSettled

SpecSuggest == Init /\ [][NextSuggest]_vars

\* a Tab request that is still pending when the password prompt opens
StaleTexts == {"ls", "sudo l"}

NextStale ==
    \/ \E text \in StaleTexts : onKeyInput(text)
    \/ KeyOther
    \/ KeyTab
    \/ KeyEnter
    \/ AutocompleteResolved
    \/ AutocompleteRejected
    \/ PasswordKey

SpecStale == Init /\ [][NextStale]_vars

\* the older variant: submission, output, Ctrl+C and its report
Texts004 == {"ls"}

Next004 ==
    \/ \E text \in Texts004 : onKeyInput004(text)
    \/ KeyEnter004
    \/ AutocompleteResolved
    \/ BackendStarts
    \/ \E line \in OutputLines : CommandOutput004(line)
    \/ KeyArrow004
    \/ KeyCtrlC004
    \/ TerminateYielded004
    \/ \E outcome \in TerminateOutcomes, result \in TerminateResults :
           TerminateReports004(outcome, result)
    \/ TerminateSettledLate004

Spec004 == Init /\ [][Next004]_vars

\* start-up: the view takes keys while ngOnInit is still awaiting
StartupTexts == {"ls"}

NextStartup ==
    \/ ListenerRegistered
    \/ \E text \in StartupTexts : onKeyInput(text)
    \/ KeyEnter
    \/ AutocompleteResolved
    \/ AutocompleteRejected
    \/ BackendStarts
    \/ \E result \in InvokeResults : InvokeResolved(result)
    \/ \E line \in OutputLines : CommandOutput(line)
    \/ \E line \in ErrorLines : CommandError(line)
    \/ \E message \in EndMessages : CommandEnd(message)

SpecStartup == InitStartup /\ [][NextStartup]_vars

\* the history cursor: submissions, cls/clear, sudo and the arrow keys
HistoryTexts == {"ls", "clear", "sudo ls"}

NextHistory ==
    \/ \E text \in HistoryTexts : onKeyInput(text)
    \/ KeyEnter
    \/ AutocompleteResolved
    \/ KeyArrow
    \/ PasswordKey
    \/ BackendStarts
    \/ \E message \in EndMessages : CommandEnd(message)

SpecHistory == Init /\ [][NextHistory]_vars

\* navigateCommandHistory of both variants, on histories built by submissions
ArrowTexts == {"ls", "pwd"}

NextArrows ==
    \/ \E text \in ArrowTexts : onKeyInput(text)
    \/ KeyEnter
    \/ AutocompleteResolved
    \/ BackendStarts
    \/ \E message \in EndMessages : CommandEnd(message)
    \/ KeyArrow
    \/ KeyArrow004

SpecArrows == Init /\ [][NextArrows]_vars

(***************************************************************************)
(* Properties.                                                             *)
(***************************************************************************)
\* what the user sees
uiVars == <<commandHistory, currentCommand, isProcessing, currentWorkingDirectory,
            commandHistoryIndex, suggestVars, sudoVars>>

\* a dispatched command the backend has neither refused nor ended
InFlight(exec) == exec.call # "rejected" /\ exec.proc # "ended"

\* C2: single-flight: at most one dispatched command (execute_command or
\* execute_sudo_command) is in flight at any time, a run request made while
\* one is pending or streaming being rejected.
C2_SingleFlight == Cardinality({x \in 1..Len(execs) : InFlight(execs[x])}) <= 1

\* C3: cancellation idempotence: a terminateCommand invoked when the last
\* history entry is already complete (a second cancel, or a cancel after
\* command_end was handled) leaves that entry unchanged.
C3_CancelIdempotent ==
    [][(/\ terminateCount' = terminateCount + 1
        /\ Len(commandHistory) > 0
        /\ Last(commandHistory).isComplete)
       => Last(commandHistory') = Last(commandHistory)]_vars

\* a step in which a command_output, command_error or command_end listener ran
EventHandled ==
    /\ Len(execs') = Len(execs)
    /\ \E x \in 1..Len(execs) :
           \/ execs'[x].lines > execs[x].lines
           \/ (execs[x].proc = "running" /\ execs'[x].proc = "ended")

\* C5: once a history entry is complete, no later command_output,
\* command_error or command_end event changes its output, isComplete,
\* isStreaming or success.
C5_NothingAfterTerminalState ==
    [][EventHandled =>
         \A i \in 1..Len(commandHistory) :
             commandHistory[i].isComplete => commandHistory'[i] = commandHistory[i]]_vars

\* the entry's own command ended with the success message
EndedSuccessfully(id) ==
    \E x \in 1..Len(execs) : execs[x].entry = id /\ execs[x].endMessage = SuccessMessage

\* the entry was resolved as failed by a rejected dispatch or by cancellation
ResolvedAsFailed(id) ==
    \/ id \in cancelled
    \/ \E x \in 1..Len(execs) : execs[x].entry = id /\ execs[x].call = "rejected"

\* C8: no error is reported as a success: an entry's success flag is true
\* only if its own command ended with 'Command completed successfully.', and
\* never for an entry resolved as failed by a rejected dispatch or by
\* cancellation.
C8_NoErrorShownAsSuccess ==
    \A i \in 1..Len(commandHistory) :
        commandHistory[i].success = "true" =>
            /\ EndedSuccessfully(commandHistory[i].id)
            /\ ~ResolvedAsFailed(commandHistory[i].id)

\* C10: terminateCommand does not wait for the backend: in the step that
\* issues terminate_command the busy flag is cleared and the last entry is
\* complete, not streaming and failed; and the step in which the call
\* settles changes nothing the user sees.
C10_TerminateDoesNotBlock ==
    [][/\ (terminateCalls' = terminateCalls + 1 =>
              /\ ~isProcessing'
              /\ Last(commandHistory').isComplete
              /\ Last(commandHistory').isStreaming = "false"
              /\ Last(commandHistory').success = "false")
       /\ (terminateCalls' = terminateCalls - 1 => UNCHANGED uiVars)]_vars

\* C10 witness: a terminate_command call has settled and the cancelled entry
\* still shows as cancelled, with the session idle
C10_Witness ==
    /\ terminateCount > 0
    /\ terminateCalls = 0
    /\ Len(commandHistory) > 0
    /\ Last(commandHistory).isComplete
    /\ Last(commandHistory).output # <<>>
    /\ Last(Last(commandHistory).output) = TerminatingLine
    /\ ~isProcessing

\* no character of s is one the user typed into the password prompt
NoSecret(s) == \A i \in 1..Len(s) : SubSeq(s, i, i) \notin PasswordKeys

\* the password prompt opens in this step
PromptOpens == ~isSudoPasswordPrompt /\ isSudoPasswordPrompt'

\* C4: secret non-leak: the characters typed into the password prompt appear
\* in no history entry (command text or output), in no autocomplete request
\* and in no command argument sent to the backend; the only place they are
\* sent is the password argument of execute_sudo_command, whose command
\* argument is the original sudo command; and the entry the prompt opens
\* holds that original command text.
C4_SecretNotLeaked ==
    /\ [](/\ \A i \in 1..Len(commandHistory) :
                /\ NoSecret(commandHistory[i].command)
                /\ \A k \in 1..Len(commandHistory[i].output) :
                       NoSecret(commandHistory[i].output[k])
          /\ \A c \in 1..Len(autocompleteCalls) : NoSecret(autocompleteCalls[c].input)
          /\ \A x \in 1..Len(execs) :
                /\ NoSecret(execs[x].command)
                /\ execs[x].kind = "command" => execs[x].password = ""
                /\ execs[x].kind = "sudo" => StartsWith(execs[x].command, "sudo "))
    /\ [][PromptOpens =>
             /\ Last(commandHistory').command = originalSudoCommand'
             /\ Len(commandHistory') = Len(commandHistory) + 1]_vars

\* C4 witness: a password was typed and sent with execute_sudo_command, and
\* the sudo entry is in the history with its original text
C4_Witness ==
    \E x \in 1..Len(execs) :
        /\ execs[x].kind = "sudo"
        /\ execs[x].password \in PasswordKeys
        /\ HasEntry(commandHistory, execs[x].entry)
        /\ EntryOf(commandHistory, execs[x].entry).command = execs[x].command
        /\ EntryOf(commandHistory, execs[x].entry).output = <<SudoProcessingLine>>

\* C6: a rejected execute_command or execute_sudo_command call resolves the
\* command's own history entry as failed: isComplete = true, success = false,
\* the output is the single line 'Error: <reason>', and isProcessing is false.
C6_RejectedDispatchFails ==
    [][\A x \in 1..Len(execs) :
           (execs[x].call = "pending" /\ execs'[x].call = "rejected") =>
               /\ ~isProcessing'
               /\ HasEntry(commandHistory, execs[x].entry) =>
                      LET e == EntryOf(commandHistory', execs[x].entry)
                      IN  /\ e.isComplete
                          /\ e.success = "false"
                          /\ \E error \in ErrorReasons : e.output = <<"Error: " \o error>>]_vars

\* C6 witness: of two dispatched commands the first was rejected; its entry
\* shows the error while the later entry is still pending
C6_Witness ==
    /\ Len(commandHistory) = 2
    /\ \E x \in 1..Len(execs) :
           /\ execs[x].call = "rejected"
           /\ execs[x].entry = commandHistory[1].id
    /\ commandHistory[1].isComplete
    /\ commandHistory[1].success = "false"
    /\ commandHistory[1].output = <<"Error: spawn failed">>
    /\ ~commandHistory[2].isComplete
    /\ ~isProcessing

\* a cd command was dispatched and its command_end has been handled
CdEnded ==
    \E x \in 1..Len(execs) :
        /\ IsCdCommand(Trim(execs[x].command))
        /\ execs[x].proc = "ended"

\* no dispatched command is still running and no get_working_directory call
\* is still to be made or to settle
DirectorySettled ==
    /\ \A x \in 1..Len(execs) : execs[x].proc = "ended"
    /\ timers = 0
    /\ dirRequests = <<>>

\* C9: directory visibility after cd: once a cd command's command_end has
\* been handled and every get_working_directory request has resolved,
\* currentWorkingDirectory shows the backend's working directory (home prefix
\* as '~'), in whatever order the proactive request and the request made on
\* completion resolve.
C9_DirectoryVisibleAfterCd ==
    (CdEnded /\ DirectorySettled) =>
        currentWorkingDirectory = ToDisplay(backendDirectory, homePath)

\* the history entry with this id was dispatched to the backend
Dispatched(id) == \E x \in 1..Len(execs) : execs[x].entry = id

\* C7: no execution is left pending forever: under fair delivery every
\* history entry that was dispatched eventually reaches isComplete = true,
\* and isProcessing eventually returns to false.
C7_NoPendingForever ==
    /\ \A id \in 1..MaxCommands :
           (Dispatched(id) /\ HasEntry(commandHistory, id)) ~>
               (HasEntry(commandHistory, id) => EntryOf(commandHistory, id).isComplete)
    /\ isProcessing ~> ~isProcessing

ClearSubmitted == submitted'.mode = "line" /\ submitted'.text \in {"cls", "clear"}

\* C11: a submitted command whose trimmed text is exactly 'cls' or 'clear' is
\* handled locally: commandHistory becomes empty, the input is cleared,
\* isProcessing is false afterwards, no history entry is added and no
\* execute_command or execute_sudo_command call is issued.
C11_ClearHandledLocally ==
    [][ClearSubmitted =>
           /\ commandHistory' = <<>>
           /\ currentCommand' = ""
           /\ ~isProcessing'
           /\ nextId' = nextId
           /\ execs' = execs]_vars

\* C11 witness: 'clear' was submitted after a command had been run; the
\* history is empty and the terminal is idle
C11_Witness ==
    /\ submitted = [mode |-> "line", text |-> "clear"]
    /\ commandHistory = <<>>
    /\ execs # <<>>
    /\ currentCommand = ""
    /\ ~isProcessing

\* the entries of a history, as the objects they are and the text they carry
Entries(h) == [i \in 1..Len(h) |-> <<h[i].id, h[i].command>>]

\* C12: history is append-only: in every step commandHistory keeps its
\* entries and their order, or is extended by exactly one entry at the end,
\* or is reset to empty by a cls/clear submission; no step removes or
\* reorders entries or changes an entry's command text.
C12_HistoryAppendOnly ==
    [][\/ Entries(commandHistory') = Entries(commandHistory)
       \/ /\ Len(commandHistory') = Len(commandHistory) + 1
          /\ SubSeq(Entries(commandHistory'), 1, Len(commandHistory)) = Entries(commandHistory)
       \/ /\ commandHistory' = <<>>
          /\ ClearSubmitted]_vars

\* C12 witness: two commands were submitted one after the other and the
\* listeners have written to the history since
C12_Witness ==
    /\ Entries(commandHistory) = <<<<1, "ls">>, <<2, "ls">>>>
    /\ commandHistory[1].output # <<>>
    /\ commandHistory[2].isComplete

\* the step just taken pushed the password prompt's entry
EntersPrompt ==
    /\ isSudoPasswordPrompt'
    /\ Len(commandHistory') = Len(commandHistory) + 1
    /\ Last(commandHistory').output = <<SudoPromptLine>>

\* C13: a submitted command enters the password prompt if and only if its
\* trimmed text starts with 'sudo ' (the keyword and a space); the original
\* text is then retained in originalSudoCommand and in one new history entry,
\* passwordValue starts empty, isProcessing is false, and nothing is
\* dispatched to the backend until the password is submitted.
C13_EntersSecretCapture ==
    /\ [][/\ submitted'.mode = "line" =>
                 (EntersPrompt <=> StartsWith(submitted'.text, "sudo "))
          /\ (PromptOpens \/ EntersPrompt) =>
                 /\ submitted'.mode = "line"
                 /\ originalSudoCommand' = submitted'.text
                 /\ Last(commandHistory').command = submitted'.text
                 /\ passwordValue' = ""
                 /\ ~isProcessing'
                 /\ execs' = execs]_vars
    /\ [](\A i \in 1..Len(commandHistory) :
              commandHistory[i].output = <<SudoPromptLine>> =>
                  ~\E x \in 1..Len(execs) : execs[x].entry = commandHistory[i].id)

\* C13 witness: 'sudo ls' was submitted: the prompt is open on its entry and
\* nothing has been dispatched
C13_Witness ==
    /\ isSudoPasswordPrompt
    /\ submitted = [mode |-> "line", text |-> "sudo ls"]
    /\ originalSudoCommand = "sudo ls"
    /\ Last(commandHistory).command = "sudo ls"
    /\ passwordValue = ""
    /\ execs = <<>>

\* a step in which an execute_sudo_command call settles
SudoCallSettles ==
    \E x \in 1..Len(execs) :
        /\ execs[x].kind = "sudo"
        /\ execs[x].call = "pending"
        /\ execs'[x].call # "pending"

\* C14: the secret is discarded at submission: Enter in password mode leaves
\* passwordValue and displayValue empty and password mode off, the settling
\* of execute_sudo_command (resolved or rejected) brings none of them back,
\* and whenever isSudoPasswordPrompt is false passwordValue is empty.
C14_SecretDiscarded ==
    /\ [](~isSudoPasswordPrompt => passwordValue = "")
    /\ [][/\ submitted'.mode = "password" =>
                 /\ passwordValue' = ""
                 /\ displayValue' = ""
                 /\ ~isSudoPasswordPrompt'
          /\ SudoCallSettles => UNCHANGED sudoVars]_vars

\* C14 witness: a password was typed and submitted, the call was rejected,
\* and nothing of the password is left
C14_Witness ==
    /\ \E x \in 1..Len(execs) :
           /\ execs[x].kind = "sudo"
           /\ execs[x].password # ""
           /\ execs[x].call = "rejected"
    /\ ~isSudoPasswordPrompt
    /\ passwordValue = ""
    /\ displayValue = ""

\* the step just taken handled an event of the command of call x
EventOf(x) ==
    /\ Len(execs') = Len(execs)
    /\ \/ execs'[x].lines > execs[x].lines
       \/ (execs[x].proc = "running" /\ execs'[x].proc = "ended")

\* C15: event attribution: a command_output, command_error or command_end
\* event of command A is applied to A's own history entry and never changes
\* the entry of another command, also when A was cancelled, the history was
\* cleared or another command was submitted in between.
C15_EventAttribution ==
    [][\A x \in 1..Len(execs) :
           EventOf(x) =>
               /\ Len(commandHistory') = Len(commandHistory)
               /\ \A i \in 1..Len(commandHistory) :
                      commandHistory[i].id # execs[x].entry =>
                          commandHistory'[i] = commandHistory[i]]_vars

\* C16: ordering on cd completion: when command_end is handled for a command
\* whose trimmed text is 'cd' or starts with 'cd ', the handler starts a
\* directory refresh and leaves isProcessing as it is; isProcessing is reset
\* only when that refresh has settled.
C16_IdleAfterCdRefresh ==
    [][\A x \in 1..Len(execs) :
           (/\ Len(execs') = Len(execs)
            /\ execs[x].proc = "running"
            /\ execs'[x].proc = "ended"
            /\ IsCdCommand(Trim(execs[x].command))) =>
               /\ isProcessing' = isProcessing
               /\ Len(dirRequests') = Len(dirRequests) + 1
               /\ dirRequests'[Len(dirRequests')].isEnd]_vars

\* a is an initial part of b
IsPrefix(a, b) == Len(a) <= Len(b) /\ SubSeq(b, 1, Len(a)) = a

\* the output holds a line that came from the backend
HasBackendLine(output) ==
    \E k \in 1..Len(output) : output[k] \in OutputLines \cup ErrorLines \cup InvokeResults

\* C17: an execution's captured output is append-only: once a line delivered
\* by the backend is in an entry's output, every later value of that output
\* extends it; no line is removed, replaced or reordered.
C17_OutputAppendOnly ==
    [][\A i \in 1..Len(commandHistory) :
           (HasBackendLine(commandHistory[i].output)
            /\ HasEntry(commandHistory', commandHistory[i].id)) =>
               IsPrefix(commandHistory[i].output,
                        EntryOf(commandHistory', commandHistory[i].id).output)]_vars

\* a line the terminal is not to show for this command; the prompt line the
\* terminal itself puts in a sudo entry is not a backend line
IsMarker(line, command) ==
    \/ line \in {StartedMarker, SudoStartedMarker}
    \/ /\ StartsWith(command, "sudo ")
       /\ Includes(line, "[sudo] password for")
       /\ line # SudoPromptLine

\* C18: marker filtering: the two 'started' lines, and for a sudo command any
\* backend line containing '[sudo] password for', never appear in a history
\* entry's output, whichever channel delivered them (output event, error
\* event or the return value of the dispatch call).
C18_MarkersFiltered ==
    \A i \in 1..Len(commandHistory) :
        \A k \in 1..Len(commandHistory[i].output) :
            ~IsMarker(commandHistory[i].output[k], commandHistory[i].command)

\* C19: masked echo: whenever the password prompt is open the visible input
\* consists of '*' characters only, as many as passwordValue has characters,
\* after any sequence of key events.
C19_MaskedEcho ==
    isSudoPasswordPrompt => currentCommand = Repeat("*", Len(passwordValue))

\* the execute_sudo_command calls made for the entry with this id
SudoCallsOf(id) == {x \in 1..Len(execs) : execs[x].kind = "sudo" /\ execs[x].entry = id}

\* C20: one dispatch per privileged request: an execute_sudo_command call is
\* made only by Enter in password mode, one call per step, carrying the
\* retained original command and closing the prompt with the password
\* dropped; no entry gets more than one such call; and when a call fails the
\* command is not sent again and no password is kept.
C20_OneSudoDispatch ==
    /\ [](\A i \in 1..Len(commandHistory) :
              Cardinality(SudoCallsOf(commandHistory[i].id)) <= 1)
    /\ [][/\ (Len(execs') > Len(execs) /\ execs'[Len(execs')].kind = "sudo") =>
                 /\ submitted'.mode = "password"
                 /\ isSudoPasswordPrompt
                 /\ ~isSudoPasswordPrompt'
                 /\ Len(execs') = Len(execs) + 1
                 /\ execs'[Len(execs')].command = originalSudoCommand
                 /\ passwordValue' = ""
          /\ (\E x \in 1..Len(execs) : /\ execs[x].kind = "sudo"
                                       /\ execs[x].call = "pending"
                                       /\ execs'[x].call = "rejected") =>
                 /\ Len(execs') = Len(execs)
                 /\ UNCHANGED sudoVars]_vars

\* C20 witness: the one call made for 'sudo ls' failed; its entry shows the
\* error, the prompt is closed and nothing was sent again
C20_Witness ==
    /\ Cardinality({x \in 1..Len(execs) : execs[x].kind = "sudo"}) = 1
    /\ \E x \in 1..Len(execs) :
           /\ execs[x].kind = "sudo"
           /\ execs[x].command = "sudo ls"
           /\ execs[x].call = "rejected"
           /\ HasEntry(commandHistory, execs[x].entry)
           /\ EntryOf(commandHistory, execs[x].entry).output = <<"Error: spawn failed">>
           /\ Cardinality(SudoCallsOf(execs[x].entry)) = 1
    /\ ~isSudoPasswordPrompt
    /\ ~isProcessing
    /\ passwordValue = ""


\* C21 (cancel from secret capture): a cancel action taken while the password
\* prompt is open -- the Escape key or terminateCommand -- returns the input
\* to normal mode: isSudoPasswordPrompt becomes false, passwordValue becomes
\* empty, and execute_sudo_command is not called.
CancelAction == KeyEscape \/ terminateCount' = terminateCount + 1

C21_CancelFromSecretCapture ==
    [][(isSudoPasswordPrompt /\ CancelAction)
         => /\ ~isSudoPasswordPrompt'
            /\ passwordValue' = ""
            /\ execs' = execs]_vars

\* the prompt closes only in a step that dispatches execute_sudo_command
PromptClosesByDispatchOnly ==
    [][(isSudoPasswordPrompt /\ ~isSudoPasswordPrompt')
         => /\ Len(execs') = Len(execs) + 1
            /\ execs'[Len(execs')].kind = "sudo"]_vars


\* the continuation of a Tab request runs in this step
TabSettles ==
    \E i \in 1..Len(autocompleteCalls) :
        /\ autocompleteCalls[i].then = "tab"
        /\ autocompleteCalls' = RemoveAt(autocompleteCalls, i)

\* C22 (autocomplete suppressed during secret capture): while
\* isSudoPasswordPrompt is true no step issues an autocomplete request, no
\* suggestion list is shown, and the continuation of a Tab request that was
\* started before the prompt opened neither shows the list nor changes the
\* input.
C22_AutocompleteSuppressed ==
    /\ [](isSudoPasswordPrompt => ~showSuggestions)
    /\ [][isSudoPasswordPrompt => Len(autocompleteCalls') <= Len(autocompleteCalls)]_vars
    /\ [][(isSudoPasswordPrompt /\ TabSettles)
            => (currentCommand' = currentCommand /\ ~showSuggestions')]_vars

\* the part of C22 about new requests alone
NoRequestInPasswordMode ==
    [][isSudoPasswordPrompt => Len(autocompleteCalls') <= Len(autocompleteCalls)]_vars


\* the Tab request number i resolves with the backend's candidates in this step
TabResolves(i) ==
    /\ autocompleteCalls[i].then = "tab"
    /\ autocompleteCalls' = RemoveAt(autocompleteCalls, i)
    /\ autocompleteSuggestions' = BackendSuggest(autocompleteCalls[i].input)

\* C23 (Tab completion outcome): when the request made by Tab resolves, a
\* single candidate is applied directly to the input and the list is hidden;
\* two or more candidates are all shown, in the order returned, with the first
\* one selected (selectedSuggestionIndex = 0) and the input left alone.
C23_TabOutcome ==
    [][\A i \in 1..Len(autocompleteCalls) :
          TabResolves(i) =>
            /\ Len(autocompleteSuggestions') = 1 =>
                  /\ currentCommand' =
                         applySuggestion(currentCommand, autocompleteSuggestions'[1])
                  /\ ~showSuggestions'
                  /\ selectedSuggestionIndex' = -1
            /\ Len(autocompleteSuggestions') >= 2 =>
                  /\ showSuggestions'
                  /\ selectedSuggestionIndex' = 0
                  /\ currentCommand' = currentCommand]_vars

\* Tab on "cd /tmp" got the single candidate "/tmp/" and applied it
C23_Witness ==
    /\ currentCommand = "cd /tmp/"
    /\ autocompleteSuggestions = <<"/tmp/">>
    /\ ~showSuggestions
    /\ selectedSuggestionIndex = -1

\* Tab on "ls" got two candidates and shows them with the first selected
C23_ListShown ==
    /\ currentCommand = "ls"
    /\ autocompleteSuggestions = <<"ls", "lsof">>
    /\ showSuggestions
    /\ selectedSuggestionIndex = 0


\* a step that issues an autocomplete request
RequestIssued == Len(autocompleteCalls') > Len(autocompleteCalls)

\* the request number i settles in this step
RequestSettles(i) == autocompleteCalls' = RemoveAt(autocompleteCalls, i)

\* what requestAutocomplete must leave alone
outsideSuggestions == <<commandHistory, currentWorkingDirectory, isProcessing, sudoVars>>

\* C24 (suggestion purity): issuing an autocomplete request and handling its
\* result (candidates, none, or an error) never changes commandHistory,
\* currentWorkingDirectory, isProcessing or the sudo/password state; a
\* background request changes nothing the user sees but
\* autocompleteSuggestions, showSuggestions and selectedSuggestionIndex; and
\* the list a request leaves is a function of its input (or empty after an
\* error).
C24_SuggestionPurity ==
    [][/\ RequestIssued => UNCHANGED outsideSuggestions
       /\ \A i \in 1..Len(autocompleteCalls) :
            RequestSettles(i) =>
              /\ autocompleteSuggestions' \in
                     {BackendSuggest(autocompleteCalls[i].input), <<>>}
              /\ autocompleteCalls[i].then \in {"none", "tab"} =>
                     UNCHANGED outsideSuggestions
              /\ autocompleteCalls[i].then = "none" =>
                     UNCHANGED <<currentCommand, commandHistoryIndex, execs>>]_vars

\* a request settled while a command was running, and left its candidates
C24_Witness ==
    /\ Len(commandHistory) > 0
    /\ isProcessing
    /\ autocompleteCalls = <<>>
    /\ autocompleteSuggestions = <<"/tmp/">>


\* the terminateCommand call number i of the older variant reports in this step
ReportStep004(i) ==
    /\ terminations[i].stage = "race"
    /\ terminations' = RemoveAt(terminations, i)

ReportLines004 ==
    {ReportLine004(outcome, result) : outcome \in TerminateOutcomes, result \in TerminateResults}

\* C25 (termination timeout report, older variant): when terminateCommand
\* reports, exactly one report line is appended to the entry that was last
\* when the cancel was requested and no other entry changes; when the timer
\* fired with the terminate_command call still pending, that line is
\* 'Termination timed out, but UI is responsive' (pushed after a line break);
\* and terminateCommand finishes with isProcessing = false and that entry
\* complete and not streaming.
C25_TerminationReport ==
    [][\A i \in 1..Len(terminations) :
          ReportStep004(i) =>
            LET id == terminations[i].entry
            IN  /\ HasEntry(commandHistory, id)
                /\ HasEntry(commandHistory', id)
                /\ Len(commandHistory') = Len(commandHistory)
                /\ \A k \in 1..Len(commandHistory) :
                      commandHistory[k].id # id => commandHistory'[k] = commandHistory[k]
                /\ \E line \in ReportLines004 :
                      EntryOf(commandHistory', id).output =
                          Append(EntryOf(commandHistory, id).output, line)
                /\ terminateCalls' = terminateCalls =>
                      EntryOf(commandHistory', id).output =
                          Append(EntryOf(commandHistory, id).output,
                                 "\n" \o "Termination timed out, but UI is responsive")
                /\ ~isProcessing'
                /\ EntryOf(commandHistory', id).isComplete
                /\ EntryOf(commandHistory', id).isStreaming = "false"]_vars

\* the first command was cancelled, a second one was submitted, and then the
\* timer of the first one's cancel fired
C25_Witness ==
    /\ Len(commandHistory) = 2
    /\ terminations = <<>>
    /\ terminateCalls = 1
    /\ commandHistory[1].output =
           <<TerminatingLine, "\n" \o "Termination timed out, but UI is responsive">>
    /\ commandHistory[1].isComplete
    /\ ~isProcessing


\* the backend emits an event of a dispatched command in this step
EventEmitted ==
    \E x \in 1..Len(execs) :
        /\ Len(execs') = Len(execs)
        /\ \/ execs'[x].lines = execs[x].lines + 1
           \/ (execs[x].proc = "running" /\ execs'[x].proc = "ended")

\* C26 (subscribe before dispatch): the command_output, command_error and
\* command_end listeners are all registered before any command is dispatched
\* to the backend, so no event of a dispatched command is emitted while a
\* listener is missing.
C26_SubscribeBeforeDispatch ==
    /\ [](Len(execs) > 0 => listeners = 3)
    /\ [][EventEmitted => listeners = 3]_vars

\* a command ended in the backend while command_end had no listener: its
\* entry stays incomplete with the session busy
EndEventMissed ==
    \E x \in 1..Len(execs) :
        /\ execs[x].proc = "ended"
        /\ listeners = 3
        /\ HasEntry(commandHistory, execs[x].entry)
        /\ ~EntryOf(commandHistory, execs[x].entry).isComplete
        /\ isProcessing


\* C27 (history cursor validity): commandHistoryIndex is -1 or an index of
\* an entry of commandHistory (0 <= index < length), whatever arrow keys,
\* submissions, sudo submissions and cls/clear came before.
C27_HistoryCursorValid ==
    \/ commandHistoryIndex = -1
    \/ commandHistoryIndex \in 0..(Len(commandHistory) - 1)


\* C28 (busy flag consistency): whenever the most recent history entry has
\* been dispatched to the backend and is still incomplete, and the password
\* prompt is not open, isProcessing is true: no continuation of an earlier
\* command clears the busy flag of a later one.
C28_BusyFlagConsistent ==
    (/\ Len(commandHistory) > 0
     /\ \E x \in 1..Len(execs) : execs[x].entry = Last(commandHistory).id
     /\ ~Last(commandHistory).isComplete
     /\ ~isSudoPasswordPrompt)
        => isProcessing


\* C29 (suggestion selection validity): whenever the list is shown and a
\* suggestion is selected, the selection is an index of the list
\* (selectedSuggestionIndex < length), under any interleaving of Tab, the
\* list's arrow keys, cancellation and background responses.
C29_SelectionValid ==
    (showSuggestions /\ selectedSuggestionIndex >= 0)
        => selectedSuggestionIndex < Len(autocompleteSuggestions)

\* the list's ArrowDown moved the selection to the last of two candidates
C29_Witness ==
    /\ showSuggestions
    /\ autocompleteSuggestions = <<"ls", "lsof">>
    /\ selectedSuggestionIndex = 1


\* the index after n presses of one arrow key, in the current variant
\* ("main") or the older one ("004")
RECURSIVE IndexAfterPresses(_, _, _, _, _)
IndexAfterPresses(variant, len, index, direction, n) ==
    IF n = 0 THEN index
    ELSE IndexAfterPresses(variant, len,
                           IF variant = "004"
                           THEN NavigateIndex004(len, index, direction)
                           ELSE NavigateIndex(len, index, direction),
                           direction, n - 1)

\* from -1, n ArrowUp then n ArrowDown lead back to -1
RoundTrip(variant) ==
    \A n \in 1..Len(commandHistory) :
        IndexAfterPresses(variant, Len(commandHistory),
            IndexAfterPresses(variant, Len(commandHistory), -1, "up", n),
            "down", n) = -1

\* C30: in both variants of the component, ArrowDown while not navigating
\* (commandHistoryIndex = -1) changes neither the input text nor
\* commandHistoryIndex; and from -1, n ArrowUp presses followed by n ArrowDown
\* presses (n <= history length) return the index to -1.
C30_ArrowDownIdle ==
    /\ [][(commandHistoryIndex = -1 /\ (ArrowKey("down") \/ ArrowKey004("down")))
            => UNCHANGED inputVars]_vars
    /\ [](RoundTrip("main") /\ RoundTrip("004"))

\* the part of C30 that is about the current variant
ArrowDownIdleMain ==
    /\ [][(commandHistoryIndex = -1 /\ ArrowKey("down")) => UNCHANGED inputVars]_vars
    /\ [](RoundTrip("main") /\ RoundTrip("004"))

====
